---- MODULE Spec2Model ----
(***************************************************************************)
(* The article confidence-scoring engine of rss-feed-reader: the persisted *)
(* neural-network model store (table neural_network_models), the training  *)
(* orchestrator (incrementalTraining, fullModelRetrain) and the batch      *)
(* scorer (scoreBatchArticles -> scoreBatchWithNeuralNet).                 *)
(*                                                                         *)
(* Every request runs as a process whose steps are the awaited database    *)
(* statements of the JavaScript code; the synchronous code between two     *)
(* awaits belongs to the step that precedes it.  The floating-point        *)
(* weights of a network are kept as a value [seed, hist]: the Math.random  *)
(* draw that initialised them and the training passes applied since.       *)
(***************************************************************************)
EXTENDS Integers, Sequences, FiniteSets, TLC

\* ---------------------------------------------------------------- bounds
NumProcs == 2
MaxCalls == 2
MaxDbErrors == 1
NumSeeds == 2
BigTable == 51
PerMille == 1000
MaxArticleWords == 3
FillerWords == 24
MaxVocabulary == 3
MaxBatch == 2
MaxHandled == 2
NetInputSize == 2
NetHiddenSize == 2
MaxNetCalls == 3

\* ------------------------------------------------------ program constants
ApprovedLimit == 50
JunkLimit == 200
MaxFeatures == 100
HiddenSize == 20
OutputSize == 1
FullEpochs == 100
LearningRateTenths == 1
MinExamples == 2
NeutralConfidence == 50
AutoDeleteBelow == 5
AutoFlagAbove == 80

Procs == 1..NumProcs
Seeds == 1..NumSeeds

\* ------------------------------------------------------------- tokenizer
STOPWORDS ==
  {"the", "be", "to", "of", "and", "a", "in", "that", "have", "i",
   "it", "for", "not", "on", "with", "he", "as", "you", "do", "at",
   "this", "but", "his", "by", "from", "they", "we", "say", "her", "she",
   "or", "an", "will", "my", "one", "all", "would", "there", "their",
   "is", "are", "was", "were", "been", "has", "had", "can", "said"}

\* String.prototype.toLowerCase on the raw tokens that occur in the corpus
toLowerCase(w) ==
  CASE w = "Chip" -> "chip"
    [] w = "Lottery" -> "lottery"
    [] w = "With" -> "with"
    [] OTHER -> w

\* variant: no token is dropped
extractKeywords_NoFilter(text) == [i \in DOMAIN text |-> toLowerCase(text[i])]

\* text is the sequence of raw tokens between the separators /[^a-z0-9]+/
extractKeywords(text) ==
  SelectSeq([i \in DOMAIN text |-> toLowerCase(text[i])],
            LAMBDA word : Len(word) > 3 /\ word \notin STOPWORDS)

\* the rows of the feed: title, description and research_notes as raw tokens
ArticleRow(id) ==
  CASE id % 4 = 1 -> [id |-> id, title |-> <<"Chip", "makers">>, description |-> <<"the", "chip">>, research_notes |-> <<>>]
    [] id % 4 = 2 -> [id |-> id, title |-> <<"Lottery", "win">>, description |-> <<>>, research_notes |-> <<>>]
    [] id % 4 = 3 -> [id |-> id, title |-> <<"chip", "2024">>, description |-> <<"With", "makers">>, research_notes |-> <<"foundry">>]
    [] OTHER -> [id |-> id, title |-> <<"lottery", "2024">>, description |-> <<"jackpot">>, research_notes |-> <<>>]

\* `${article.title} ${article.description || ''} ${article.research_notes || ''}`
ArticleText(article) == article.title \o article.description \o article.research_notes

Min(a, b) == IF a < b THEN a ELSE b

\* the keywords of articles[1..n], in the order the forEach loops meet them
RECURSIVE CorpusWords(_, _)
CorpusWords(articles, n) ==
  IF n = 0 THEN <<>>
  ELSE CorpusWords(articles, n - 1) \o extractKeywords(ArticleText(articles[n]))

\* wordFreq[word] after the loops, for a word that is no name of Object.prototype
\* (for such a name `(wordFreq[word] || 0) + 1` starts from the inherited function
\* and gives a string: the corpora of buildVocabulary taken here have none, as
\* the comparator of the sort then returns NaN and the order is the engine's)
CountOf(word, words) == Cardinality({i \in DOMAIN words : words[i] = word})

\* the positions of s in increasing order
RECURSIVE Ascending(_)
Ascending(s) ==
  IF s = {} THEN <<>>
  ELSE LET m == CHOOSE x \in s : \A y \in s : x <= y
       IN <<m>> \o Ascending(s \ {m})

\* the keys of wordFreq in the order of their first assignment
Distinct(words) ==
  LET first == {i \in DOMAIN words : \A j \in 1..(i - 1) : words[j] # words[i]}
      order == Ascending(first)
  IN [k \in DOMAIN order |-> words[order[k]]]

\* property keys that are canonical array indices, with their numeric value
IntegerKeyValue(w) ==
  CASE w = "2024" -> 2024
    [] w = "2025" -> 2025
    [] OTHER -> -1

RECURSIVE InsertAscending(_, _)
InsertAscending(w, sorted) ==
  IF sorted = <<>> THEN <<w>>
  ELSE IF IntegerKeyValue(w) < IntegerKeyValue(Head(sorted)) THEN <<w>> \o sorted
       ELSE <<Head(sorted)>> \o InsertAscending(w, Tail(sorted))

RECURSIVE SortIntegerKeys(_)
SortIntegerKeys(ws) ==
  IF ws = <<>> THEN <<>> ELSE InsertAscending(Head(ws), SortIntegerKeys(Tail(ws)))

\* Object.entries(wordFreq): integer keys ascending, then the others in insertion order
ObjectEntries(words) ==
  LET keys == Distinct(words)
  IN SortIntegerKeys(SelectSeq(keys, LAMBDA w : IntegerKeyValue(w) >= 0))
     \o SelectSeq(keys, LAMBDA w : IntegerKeyValue(w) < 0)

\* stable insertion of an entry into a list sorted by descending count
RECURSIVE InsertByCount(_, _, _)
InsertByCount(w, sorted, words) ==
  IF sorted = <<>> THEN <<w>>
  ELSE IF CountOf(w, words) > CountOf(Head(sorted), words) THEN <<w>> \o sorted
       ELSE <<Head(sorted)>> \o InsertByCount(w, Tail(sorted), words)

\* Array.prototype.sort((a, b) => b[1] - a[1]), which is stable
RECURSIVE SortByCountDesc(_, _)
SortByCountDesc(entries, words) ==
  IF entries = <<>> THEN <<>>
  ELSE InsertByCount(entries[Len(entries)],
                     SortByCountDesc(SubSeq(entries, 1, Len(entries) - 1), words), words)

buildVocabulary(articles, maxFeatures) ==
  LET words == CorpusWords(articles, Len(articles))
      sortedWords == SortByCountDesc(ObjectEntries(words), words)
  IN SubSeq(sortedWords, 1, IF Len(sortedWords) < maxFeatures THEN Len(sortedWords) ELSE maxFeatures)

\* the names every object literal inherits from Object.prototype that the
\* tokenizer can emit (it emits lower-case letters and digits only)
ObjectPrototypeKeys == {"constructor"}

\* `tf > 0` for tf = wordCount[word] || 0: for an inherited name wordCount[word]
\* is the inherited function, or the string made from it by `+ 1`, and the
\* comparison with 0 is false
TermPresent(word, words) ==
  IF word \in ObjectPrototypeKeys THEN FALSE ELSE CountOf(word, words) > 0

articleToFeatureVector(article, vocabulary) ==
  LET words == extractKeywords(ArticleText(article))
  IN [i \in 1..Len(vocabulary) |-> IF TermPresent(vocabulary[i], words) THEN 1 ELSE 0]

\* ---------------------------------------------------------- NeuralNetwork
\* this.randomMatrix(rows, cols): rows arrays of cols Math.random values, drawn
\* by seed; hist is the training applied to them since (train updates the
\* entries in place and keeps the shape)
randomMatrix(rows, cols, seed) == [seed |-> seed, hist |-> <<>>, rows |-> rows, cols |-> cols]

\* variant: the input layer has the default vocabulary size whatever inputSize is
NeuralNetwork_FixedInput(inputSize, hiddenSize, outputSize, seed) ==
  [inputSize |-> MaxFeatures, hiddenSize |-> hiddenSize, outputSize |-> outputSize,
   weights |-> randomMatrix(MaxFeatures, hiddenSize, seed),
   weightsHiddenOutput |-> randomMatrix(hiddenSize, outputSize, seed),
   biasHidden |-> randomMatrix(1, hiddenSize, seed),
   biasOutput |-> randomMatrix(1, outputSize, seed),
   learningRate |-> LearningRateTenths]

\* new NeuralNetwork(inputSize, hiddenSize, outputSize): weights is
\* weightsInputHidden; a bias vector is kept as a matrix of one row
NeuralNetwork(inputSize, hiddenSize, outputSize, seed) ==
  [inputSize |-> inputSize, hiddenSize |-> hiddenSize, outputSize |-> outputSize,
   weights |-> randomMatrix(inputSize, hiddenSize, seed),
   weightsHiddenOutput |-> randomMatrix(hiddenSize, outputSize, seed),
   biasHidden |-> randomMatrix(1, hiddenSize, seed),
   biasOutput |-> randomMatrix(1, outputSize, seed),
   learningRate |-> LearningRateTenths]

NoNet == NeuralNetwork(0, 0, 0, 0)

\* the epoch loop: epochs shuffled passes of nn.train over trainingData
TrainEpochs(nn, trainingData, epochs, shuffle) ==
  LET pass == [data |-> trainingData, epochs |-> epochs, shuffle |-> shuffle]
  IN [nn EXCEPT !.weights.hist = Append(@, pass),
                !.weightsHiddenOutput.hist = Append(@, pass),
                !.biasHidden.hist = Append(@, pass),
                !.biasOutput.hist = Append(@, pass)]

RECURSIVE SumSeq(_)
SumSeq(s) == IF s = <<>> THEN 0 ELSE Head(s) + SumSeq(Tail(s))

RECURSIVE TotalSteps(_)
TotalSteps(hist) ==
  IF hist = <<>> THEN 0
  ELSE Len(Head(hist).data) * Head(hist).epochs + Head(hist).shuffle + TotalSteps(Tail(hist))

\* the value NaN of a prediction or a confidence
NotANumber == -1

\* Math.round(num / den) for num >= 0, den > 0: the nearest integer, halves upward
MathRound(num, den) == (2 * num + den) \div (2 * den)

\* nn.predict(features): a value of [0, 1] in thousandths, fixed by the weights
\* and the feature vector
\* (forward reads inputs[i] for every i < inputSize: beyond the end of features
\* it reads undefined and every sum is NaN)
predict(nn, features) ==
  IF Len(features) < nn.inputSize THEN NotANumber ELSE
  LET drawn == nn.weights.seed * 4 + nn.weightsHiddenOutput.seed + nn.biasHidden.seed + nn.biasOutput.seed
      trained == TotalSteps(nn.weights.hist) * 10 + TotalSteps(nn.weightsHiddenOutput.hist)
                 + TotalSteps(nn.biasHidden.hist) + TotalSteps(nn.biasOutput.hist)
  IN (drawn + trained + SumSeq(features) * 31) % (PerMille + 1)

\* Math.round(prediction * 100)
RoundedPrediction(prediction) ==
  IF prediction = NotANumber THEN NotANumber ELSE MathRound(prediction * 100, PerMille)

\* variant: biasOutput is not taken from the saved data and stays as the
\* constructor drew it
fromJSON_FreshBias(data) ==
  [inputSize |-> data.inputSize, hiddenSize |-> data.hiddenSize, outputSize |-> data.outputSize,
   weights |-> data.weights, weightsHiddenOutput |-> data.weightsHiddenOutput,
   biasHidden |-> data.biasHidden, biasOutput |-> randomMatrix(1, data.outputSize, 0),
   learningRate |-> IF data.learningRate = 0 THEN LearningRateTenths ELSE data.learningRate]

toJSON(nn) ==
  [inputSize |-> nn.inputSize, hiddenSize |-> nn.hiddenSize, outputSize |-> nn.outputSize,
   weights |-> nn.weights, weightsHiddenOutput |-> nn.weightsHiddenOutput,
   biasHidden |-> nn.biasHidden, biasOutput |-> nn.biasOutput,
   learningRate |-> nn.learningRate]

fromJSON(data) ==
  [inputSize |-> data.inputSize, hiddenSize |-> data.hiddenSize, outputSize |-> data.outputSize,
   weights |-> data.weights, weightsHiddenOutput |-> data.weightsHiddenOutput,
   biasHidden |-> data.biasHidden, biasOutput |-> data.biasOutput,
   learningRate |-> IF data.learningRate = 0 THEN LearningRateTenths ELSE data.learningRate]

\* ------------------------------------------------ neural_network_models
\* update({ is_active: false }).eq('is_active', true)
DeactivateAll(rows) ==
  [i \in DOMAIN rows |-> [rows[i] EXCEPT !.is_active = FALSE]]

\* variant: the inserted row is not marked active
InsertModel_Inactive(rows, nn, vocabulary, trainingCount) ==
  Append(rows, [id |-> Len(rows) + 1,
                vocabulary |-> vocabulary,
                weights |-> nn.weights,
                weights_hidden_output |-> nn.weightsHiddenOutput,
                bias_hidden |-> nn.biasHidden,
                bias_output |-> nn.biasOutput,
                input_size |-> nn.inputSize,
                hidden_size |-> nn.hiddenSize,
                output_size |-> nn.outputSize,
                learning_rate |-> nn.learningRate,
                training_count |-> trainingCount,
                last_trained_at |-> Len(rows) + 1,
                is_active |-> FALSE])

\* variant: the latest row is overwritten in place (an upsert), a first row is inserted
InsertModel_InPlace(rows, nn, vocabulary, trainingCount) ==
  LET row == [id |-> IF rows = <<>> THEN 1 ELSE Len(rows),
              vocabulary |-> vocabulary,
              weights |-> nn.weights,
              weights_hidden_output |-> nn.weightsHiddenOutput,
              bias_hidden |-> nn.biasHidden,
              bias_output |-> nn.biasOutput,
              input_size |-> nn.inputSize,
              hidden_size |-> nn.hiddenSize,
              output_size |-> nn.outputSize,
              learning_rate |-> nn.learningRate,
              training_count |-> trainingCount,
              last_trained_at |-> IF rows = <<>> THEN 1 ELSE Len(rows),
              is_active |-> TRUE]
  IN IF rows = <<>> THEN <<row>> ELSE [rows EXCEPT ![Len(rows)] = row]

\* insert([{ ..., is_active: true }]); id and last_trained_at take their defaults
InsertModel(rows, nn, vocabulary, trainingCount) ==
  LET modelData == toJSON(nn)
  IN Append(rows, [id |-> Len(rows) + 1,
                   vocabulary |-> vocabulary,
                   weights |-> modelData.weights,
                   weights_hidden_output |-> modelData.weightsHiddenOutput,
                   bias_hidden |-> modelData.biasHidden,
                   bias_output |-> modelData.biasOutput,
                   input_size |-> modelData.inputSize,
                   hidden_size |-> modelData.hiddenSize,
                   output_size |-> modelData.outputSize,
                   learning_rate |-> modelData.learningRate,
                   training_count |-> trainingCount,
                   last_trained_at |-> Len(rows) + 1,
                   is_active |-> TRUE])

ActiveRows(rows) == {i \in DOMAIN rows : rows[i].is_active}

NoModel == [ok |-> FALSE, id |-> 0, nn |-> NoNet, vocabulary |-> <<>>, trainingCount |-> 0]

\* variant: the oldest active row is returned
loadModelFromDatabase_Oldest(rows) ==
  IF ActiveRows(rows) = {} THEN NoModel
  ELSE LET i == CHOOSE a \in ActiveRows(rows) :
                  \A b \in ActiveRows(rows) : rows[a].last_trained_at <= rows[b].last_trained_at
           data == rows[i]
       IN [ok |-> TRUE, id |-> data.id,
           nn |-> fromJSON([inputSize |-> data.input_size, hiddenSize |-> data.hidden_size,
                            outputSize |-> data.output_size, weights |-> data.weights,
                            weightsHiddenOutput |-> data.weights_hidden_output,
                            biasHidden |-> data.bias_hidden, biasOutput |-> data.bias_output,
                            learningRate |-> data.learning_rate]),
           vocabulary |-> data.vocabulary,
           trainingCount |-> data.training_count]

\* select('*').eq('is_active', true).order('last_trained_at', desc).limit(1).single()
loadModelFromDatabase(rows) ==
  IF ActiveRows(rows) = {} THEN NoModel
  ELSE LET i == CHOOSE a \in ActiveRows(rows) :
                  \A b \in ActiveRows(rows) : rows[b].last_trained_at <= rows[a].last_trained_at
           data == rows[i]
       IN [ok |-> TRUE, id |-> data.id,
           nn |-> fromJSON([inputSize |-> data.input_size, hiddenSize |-> data.hidden_size,
                            outputSize |-> data.output_size, weights |-> data.weights,
                            weightsHiddenOutput |-> data.weights_hidden_output,
                            biasHidden |-> data.bias_hidden, biasOutput |-> data.bias_output,
                            learningRate |-> data.learning_rate]),
           vocabulary |-> data.vocabulary,
           trainingCount |-> data.training_count]

\* ------------------------------------------------------- labelled examples
Reverse(s) == [i \in 1..Len(s) |-> s[Len(s) + 1 - i]]

\* order(..., { ascending: false }).limit(n) over a table kept in insertion order
MostRecent(table, n) ==
  Reverse(SubSeq(table, IF Len(table) > n THEN Len(table) - n + 1 ELSE 1, Len(table)))

\* variant: every approved row, without the limit
getApprovedExamples_All(table) == Reverse(table)

getApprovedExamples(table) == MostRecent(table, ApprovedLimit)
getJunkExamples(table) == MostRecent(table, JunkLimit)

\* select('title, description, source_name, research_notes')
ApprovedExample(id) == ArticleRow(id)
\* select('title, description, source_name'): no research_notes
JunkExample(id) == [ArticleRow(id) EXCEPT !.research_notes = <<>>]

ApprovedRows(ids) == [i \in DOMAIN ids |-> ApprovedExample(ids[i])]
JunkRows(ids) == [i \in DOMAIN ids |-> JunkExample(ids[i])]

\* trainingData.push({ input: articleToFeatureVector(article, vocabulary), output: [label] })
TrainingData(approvedArticles, junkArticles, vocabulary) ==
  [i \in DOMAIN approvedArticles |->
     [input |-> articleToFeatureVector(approvedArticles[i], vocabulary), output |-> 1]]
  \o [i \in DOMAIN junkArticles |->
     [input |-> articleToFeatureVector(junkArticles[i], vocabulary), output |-> 0]]

\* variant: both classes must be short for the guard to apply
InsufficientData_Both(approvedArticles, junkArticles) ==
  Len(approvedArticles) < 2 /\ Len(junkArticles) < 2

\* variant: one example of each class is enough
InsufficientData_One(approvedArticles, junkArticles) ==
  Len(approvedArticles) < 1 \/ Len(junkArticles) < 1

\* approvedArticles.length < 2 || junkArticles.length < 2
InsufficientData(approvedArticles, junkArticles) ==
  Len(approvedArticles) < MinExamples \/ Len(junkArticles) < MinExamples

\* vocabulary, fresh network and the epoch loop of trainNeuralNetwork / fullModelRetrain
\* (rnd is the state of Math.random, which draws the weights and then the shuffles)
trainNeuralNetwork(approvedArticles, junkArticles, epochs, rnd) ==
  LET vocabulary == buildVocabulary(approvedArticles \o junkArticles, MaxFeatures)
      nn == NeuralNetwork(Len(vocabulary), HiddenSize, OutputSize, rnd)
  IN [nn |-> TrainEpochs(nn, TrainingData(approvedArticles, junkArticles, vocabulary), epochs, rnd),
      vocabulary |-> vocabulary]

\* ----------------------------------------------------------------- scoring
\* the arrow function of scoreBatchWithNeuralNet's articles.map
\* variant: the rounded prediction is returned as it is
NetResult_Raw(prediction) ==
  [confidence |-> RoundedPrediction(prediction),
   reasoning |-> IF RoundedPrediction(prediction) < 5 THEN "nn-auto-deleted" ELSE "nn",
   isNeuralNet |-> TRUE,
   shouldAutoDelete |-> RoundedPrediction(prediction) < 5]

\* the result object built from a prediction
NetResult(prediction) ==
  LET confidence == RoundedPrediction(prediction)
      shouldAutoDelete == confidence # NotANumber /\ confidence < AutoDeleteBelow
  IN [confidence |-> IF shouldAutoDelete THEN 0 ELSE confidence,
      reasoning |-> IF shouldAutoDelete THEN "nn-auto-deleted" ELSE "nn",
      isNeuralNet |-> TRUE,
      shouldAutoDelete |-> shouldAutoDelete]

ScoreOne(article, nn, vocabulary) ==
  NetResult(predict(nn, articleToFeatureVector(article, vocabulary)))

ScoreAll(articles, nn, vocabulary) ==
  [i \in DOMAIN articles |-> ScoreOne(ArticleRow(articles[i]), nn, vocabulary)]

\* a null entry of articles: `article.title` throws a TypeError
NullArticle == 0

\* the result of the catch block of scoreBatchWithNeuralNet (shouldAutoDelete undefined)
ErrorScores(articles) ==
  [i \in DOMAIN articles |->
     [confidence |-> NeutralConfidence, reasoning |-> "scoring-error",
      isNeuralNet |-> TRUE, shouldAutoDelete |-> FALSE]]

\* variant: a null entry is left out of the results
ScoreBatch_SkipNull(articles, nn, vocabulary) ==
  ScoreAll(SelectSeq(articles, LAMBDA a : a # NullArticle), nn, vocabulary)

\* forward reads this.weightsInputHidden[i][j] for every i < inputSize: a matrix
\* with fewer rows gives a TypeError
MatrixTooShort(nn) == nn.hiddenSize > 0 /\ nn.weights.rows < nn.inputSize

\* articles.map(...) inside the try block, and the catch block around it
ScoreBatch(articles, nn, vocabulary) ==
  IF \/ \E i \in DOMAIN articles : articles[i] = NullArticle
     \/ articles # <<>> /\ MatrixTooShort(nn)
  THEN ErrorScores(articles)
  ELSE ScoreAll(articles, nn, vocabulary)

\* variant: without a saved model the error result is returned
ScoresAfterSave_NeedSaved(saveOk, articles, nn, vocabulary) ==
  IF saveOk THEN ScoreBatch(articles, nn, vocabulary) ELSE ErrorScores(articles)

\* `await saveModelToDatabase(...)` in the cold-start branch: the value it returns
\* is not looked at, and the map follows
ScoresAfterSave(saveOk, articles, nn, vocabulary) == ScoreBatch(articles, nn, vocabulary)

\* the insufficient-data result of scoreBatchWithNeuralNet (shouldAutoDelete undefined)
InsufficientScores(articles) ==
  [i \in DOMAIN articles |->
     [confidence |-> NeutralConfidence, reasoning |-> "insufficient",
      isNeuralNet |-> TRUE, shouldAutoDelete |-> FALSE]]

\* the no-training-data result of scoreBatchArticles
NoTrainingDataResults(articles) ==
  [i \in DOMAIN articles |->
     [link |-> articles[i], confidence |-> NeutralConfidence, reasoning |-> "no-training-data",
      shouldAutoFlag |-> FALSE, shouldAutoDelete |-> FALSE, isNeuralNet |-> TRUE]]

\* variant: the links of junk_articles are not looked at
ScoredArticles_AnyLink(articles, neuralNetScores, junkLinks) ==
  [i \in DOMAIN articles |->
     [link |-> articles[i],
      confidence |-> neuralNetScores[i].confidence,
      reasoning |-> neuralNetScores[i].reasoning,
      shouldAutoFlag |-> neuralNetScores[i].confidence > 80,
      shouldAutoDelete |-> neuralNetScores[i].shouldAutoDelete,
      isNeuralNet |-> TRUE]]

\* scoredArticles of scoreBatchArticles; an article's link is its id
ScoredArticles(articles, neuralNetScores, junkLinks) ==
  [i \in DOMAIN articles |->
     [link |-> articles[i],
      confidence |-> neuralNetScores[i].confidence,
      reasoning |-> neuralNetScores[i].reasoning,
      shouldAutoFlag |-> articles[i] \notin junkLinks /\ neuralNetScores[i].confidence > AutoFlagAbove,
      shouldAutoDelete |-> neuralNetScores[i].shouldAutoDelete,
      isNeuralNet |-> TRUE]]

\* variant: the loaded model is never used
HasSavedModel_Never(savedModel) == FALSE

\* -------------------------------------------------- keyword fallback scorer
\* `${article.title} ${article.description || ''}`
TitleAndDescription(article) == article.title \o article.description

\* the keywords of articles[1..n] in the order calculateWordFrequency meets them
RECURSIVE FrequencyWords(_, _)
FrequencyWords(articles, n) ==
  IF n = 0 THEN <<>>
  ELSE FrequencyWords(articles, n - 1) \o extractKeywords(TitleAndDescription(articles[n]))

\* the table `normalized`: its own keys are the words met, the value of a key is
\* frequency[word] / totalWords, kept as the words themselves
calculateWordFrequency(articles) == FrequencyWords(articles, Len(articles))

\* approvedFreq[word] || 0 : count / totalWords for a word met, 0 for a word not
\* met.  frequency[word] of an inherited name starts from the inherited function:
\* when met it becomes a string and its normalized value NaN, and `|| 0` gives 0;
\* when not met the lookup gives the inherited function itself, which is no number
Weight(freq, word) ==
  IF word \in ObjectPrototypeKeys
  THEN [number |-> CountOf(word, freq) > 0, count |-> 0]
  ELSE [number |-> TRUE, count |-> CountOf(word, freq)]

\* the words pushed when `approvedWeight > 0`, resp. `junkWeight > 0`
Matched(freq, articleWords) ==
  SelectSeq(articleWords, LAMBDA w : Weight(freq, w).number /\ Weight(freq, w).count > 0)

\* approvedScore, resp. junkScore: the sum of the weights times totalWords, and
\* whether `+=` of a value that is no number has made it a string
RECURSIVE Score(_, _)
Score(freq, articleWords) ==
  IF articleWords = <<>> THEN [sum |-> 0, string |-> FALSE]
  ELSE LET rest == Score(freq, Tail(articleWords))
           weight == Weight(freq, Head(articleWords))
       IN [sum |-> rest.sum + weight.count, string |-> rest.string \/ ~weight.number]

\* variant: junk keywords are enough
OnlyJunkKeywords_AnyJunk(matchedApprovedWords, matchedJunkWords) ==
  Len(matchedJunkWords) > 0

\* matchedJunkWords.length > 0 && matchedApprovedWords.length === 0
OnlyJunkKeywords(matchedApprovedWords, matchedJunkWords) ==
  Len(matchedJunkWords) > 0 /\ Len(matchedApprovedWords) = 0

\* totalScore === 0 ? 50 : Math.round((approvedScore / totalScore) * 100)
RatioConfidence(approvedScore, approvedTotal, junkScore, junkTotal) ==
  IF approvedScore.string \/ junkScore.string THEN NotANumber
  ELSE IF approvedScore.sum = 0 /\ junkScore.sum = 0 THEN NeutralConfidence
  ELSE IF approvedScore.sum = 0 THEN 0
  ELSE IF junkScore.sum = 0 THEN 100
  ELSE MathRound(100 * approvedScore.sum * junkTotal,
                 approvedScore.sum * junkTotal + junkScore.sum * approvedTotal)

scoreArticleWithKeywords(article, approvedArticles, junkArticles) ==
  LET approvedFreq == calculateWordFrequency(approvedArticles)
      junkFreq == calculateWordFrequency(junkArticles)
      articleWords == extractKeywords(TitleAndDescription(article))
      matchedApprovedWords == Matched(approvedFreq, articleWords)
      matchedJunkWords == Matched(junkFreq, articleWords)
      onlyJunkKeywords == OnlyJunkKeywords(matchedApprovedWords, matchedJunkWords)
      confidence == RatioConfidence(Score(approvedFreq, articleWords), Len(approvedFreq),
                                    Score(junkFreq, articleWords), Len(junkFreq))
  IN IF Len(articleWords) = 0
     THEN [confidence |-> NeutralConfidence, isFallback |-> TRUE, shouldAutoDelete |-> FALSE]
     ELSE [confidence |-> IF onlyJunkKeywords THEN 0 ELSE confidence,
           isFallback |-> TRUE,
           shouldAutoDelete |-> onlyJunkKeywords]

\* `if (savedModel)` of scoreBatchWithNeuralNet and `if (!savedModel)` of incrementalTraining
HasSavedModel(savedModel) == savedModel.ok

\* variant: the count grows by the number of examples only
NewTrainingCount_NoEpochs(trainingCount, trainingData, epochs) ==
  trainingCount + Len(trainingData)

\* trainingCount + (trainingData.length * epochs)
NewTrainingCount(trainingCount, trainingData, epochs) ==
  trainingCount + Len(trainingData) * epochs

\* trainingData.length * epochs of fullModelRetrain, trainingData * 100 of the batch scorer
FullTrainingCount(approvedArticles, junkArticles) ==
  (Len(approvedArticles) + Len(junkArticles)) * FullEpochs

\* return value of incrementalTraining / fullModelRetrain after `await saveModelToDatabase(...)`
ReturnAfterSave(saveOk) == "true"

\* ------------------------------------------------------------------- state
VARIABLES
  neural_network_models,  \* rows of the table, in insertion order
  approved_articles,      \* ids of the approved rows, in insertion order
  junk_articles,          \* ids of the junk rows, in insertion order
  op,                     \* the call each process runs
  pc,                     \* its position (the next awaited statement)
  loc,                    \* its local variables
  hist,                   \* what the call has done so far (history)
  dbErrors,               \* database statements that failed so far
  calls,                  \* calls started so far
  probe                   \* a function applied on its own: its name, arguments and result

vars == <<neural_network_models, approved_articles, junk_articles, op, pc, loc, hist, dbErrors, calls,
          probe>>

NoProbe == [fn |-> "none"]

\* inputs of the calls
ArticleBatches == {<<>>, <<5, 2>>}
IncrementalInputs ==
  {[newApproved |-> <<>>, newJunk |-> <<>>, epochs |-> 20],
   [newApproved |-> <<7>>, newJunk |-> <<>>, epochs |-> 20],
   [newApproved |-> <<7>>, newJunk |-> <<8>>, epochs |-> 1]}

BigApproved == [i \in 1..BigTable |-> 2 * i - 1]

\* a model left by an earlier full retrain over two approved and two junk rows
InitialModel ==
  LET trained == trainNeuralNetwork(ApprovedRows(<<3, 1>>), JunkRows(<<4, 2>>), FullEpochs, 1)
  IN InsertModel(<<>>, trained.nn, trained.vocabulary, FullTrainingCount(<<3, 1>>, <<4, 2>>))

\* the tables at the time the calls arrive (rows can have been removed since the
\* model was trained)
InitDatabases ==
  {[a |-> <<>>, j |-> <<>>, m |-> <<>>],
   [a |-> <<1>>, j |-> <<2, 4>>, m |-> InitialModel],
   [a |-> <<1, 3>>, j |-> <<2, 4>>, m |-> <<>>],
   [a |-> <<1, 3>>, j |-> <<2, 4>>, m |-> InitialModel],
   [a |-> BigApproved, j |-> <<2, 4>>, m |-> <<>>]}

IdleLoc ==
  [articles |-> <<>>, approved |-> <<>>, junk |-> <<>>, junkLinks |-> {},
   newApproved |-> <<>>, newJunk |-> <<>>, epochs |-> 0,
   savedModel |-> NoModel, nn |-> NoNet, vocabulary |-> <<>>, trainingCount |-> 0,
   saveOk |-> FALSE, scores |-> <<>>, out |-> <<>>, ret |-> "none"]

IdleHist ==
  [trace |-> <<>>, storedA |-> -1, storedJ |-> -1, rowsAtLoad |-> -1,
   activeAtLoad |-> -1, activeAtSave |-> 0, insertedId |-> 0, racedLoad |-> FALSE,
   alone |-> FALSE, quiet |-> FALSE]

Init ==
  /\ \E d \in InitDatabases :
       /\ approved_articles = d.a
       /\ junk_articles = d.j
       /\ neural_network_models = d.m
  /\ op = [p \in Procs |-> "idle"]
  /\ pc = [p \in Procs |-> "idle"]
  /\ loc = [p \in Procs |-> IdleLoc]
  /\ hist = [p \in Procs |-> IdleHist]
  /\ dbErrors = 0
  /\ calls = 0
  /\ probe = NoProbe

\* database statements either succeed or fail; fails of them fail in this step
Outcome(fails) ==
  /\ dbErrors + fails <= MaxDbErrors
  /\ dbErrors' = dbErrors + fails

Failed(ok) == IF ok THEN 0 ELSE 1

Note(p, event) == [hist[p] EXCEPT !.trace = Append(@, event)]

\* a write of process p to neural_network_models is seen by all other calls
WrittenBy(p, h) ==
  [q \in Procs |-> IF q = p THEN h ELSE [hist[q] EXCEPT !.quiet = FALSE, !.alone = FALSE]]

\* a request arrives and is served by the first process that serves none
Begin(p, name, first, l) ==
  /\ pc[p] \in {"idle", "done"}
  /\ \A q \in Procs : q < p => pc[q] \notin {"idle", "done"}
  /\ calls < MaxCalls
  /\ calls' = calls + 1
  /\ op' = [op EXCEPT ![p] = name]
  /\ pc' = [pc EXCEPT ![p] = first]
  /\ loc' = [loc EXCEPT ![p] = l]
  /\ hist' = [hist EXCEPT ![p] = IdleHist]
  /\ UNCHANGED <<neural_network_models, approved_articles, junk_articles, dbErrors, probe>>

\* ---------------------------------------------------- scoreBatchArticles
StartScoreBatchArticles(p) ==
  \E articles \in ArticleBatches :
    Begin(p, "score", "sba_fetch", [IdleLoc EXCEPT !.articles = articles])

\* getApprovedExamples(), getJunkExamples(), the no-training-data return, the
\* select('link') on junk_articles and the entry of scoreBatchWithNeuralNet.
\* The three reads are one step: no step writes the tables they read.
SbaFetch(p) ==
  /\ pc[p] = "sba_fetch"
  /\ \E okA \in BOOLEAN, okJ \in BOOLEAN, okL \in BOOLEAN :
       LET approved == IF okA THEN getApprovedExamples(approved_articles) ELSE <<>>
           junk == IF okJ THEN getJunkExamples(junk_articles) ELSE <<>>
           junkLinks == IF okL THEN {junk_articles[i] : i \in DOMAIN junk_articles} ELSE {}
           h == [hist[p] EXCEPT !.storedA = Len(approved_articles), !.storedJ = Len(junk_articles)]
           l == [loc[p] EXCEPT !.approved = approved, !.junk = junk]
       IN IF Len(approved) = 0 /\ Len(junk) = 0
          THEN /\ okL
               /\ Outcome(Failed(okA) + Failed(okJ))
               /\ loc' = [loc EXCEPT ![p] = [l EXCEPT !.out = NoTrainingDataResults(loc[p].articles)]]
               /\ hist' = [hist EXCEPT ![p] = h]
               /\ pc' = [pc EXCEPT ![p] = "done"]
          ELSE /\ Outcome(Failed(okA) + Failed(okJ) + Failed(okL))
               /\ hist' = [hist EXCEPT ![p] = [h EXCEPT !.trace = Append(@, "scoreBatchWithNeuralNet")]]
               /\ IF InsufficientData(approved, junk)
                  THEN /\ loc' = [loc EXCEPT ![p] =
                                    [l EXCEPT !.junkLinks = junkLinks,
                                              !.scores = InsufficientScores(loc[p].articles),
                                              !.out = ScoredArticles(loc[p].articles,
                                                        InsufficientScores(loc[p].articles), junkLinks)]]
                       /\ pc' = [pc EXCEPT ![p] = "done"]
                  ELSE /\ loc' = [loc EXCEPT ![p] = [l EXCEPT !.junkLinks = junkLinks]]
                       /\ pc' = [pc EXCEPT ![p] = "sb_load"]
  /\ UNCHANGED <<neural_network_models, approved_articles, junk_articles, op, calls, probe>>

\* some other call has deactivated the active model and not yet inserted its own
MidSaveOverActive(p) ==
  \E q \in Procs \ {p} : pc[q] = "save_insert" /\ hist[q].activeAtSave # 0

\* const savedModel = await loadModelFromDatabase(), and the branch on it
ScoreLoad(p) ==
  /\ pc[p] = "sb_load"
  /\ \E ok \in BOOLEAN :
       /\ Outcome(Failed(ok))
       /\ LET savedModel == IF ok THEN loadModelFromDatabase(neural_network_models) ELSE NoModel
              h == [Note(p, "load") EXCEPT !.rowsAtLoad = Len(neural_network_models),
                                           !.activeAtLoad = Cardinality(ActiveRows(neural_network_models)),
                                           !.alone = TRUE,
                                           !.racedLoad = ok /\ MidSaveOverActive(p)]
          IN IF HasSavedModel(savedModel)
             THEN LET scores == ScoreBatch(loc[p].articles, savedModel.nn, savedModel.vocabulary)
                  IN /\ loc' = [loc EXCEPT ![p].savedModel = savedModel,
                                           ![p].nn = savedModel.nn,
                                           ![p].vocabulary = savedModel.vocabulary,
                                           ![p].scores = scores,
                                           ![p].out = ScoredArticles(loc[p].articles, scores, loc[p].junkLinks)]
                     /\ hist' = [hist EXCEPT ![p] = [h EXCEPT !.trace = Append(@, "score")]]
                     /\ pc' = [pc EXCEPT ![p] = "done"]
             ELSE \E rnd \in Seeds :
                    LET trained == trainNeuralNetwork(ApprovedRows(loc[p].approved),
                                                      JunkRows(loc[p].junk), FullEpochs, rnd)
                    IN /\ loc' = [loc EXCEPT ![p].savedModel = savedModel,
                                             ![p].nn = trained.nn,
                                             ![p].vocabulary = trained.vocabulary,
                                             ![p].trainingCount = FullTrainingCount(loc[p].approved, loc[p].junk)]
                       /\ hist' = [hist EXCEPT ![p] = [h EXCEPT !.trace = Append(@, "train")]]
                       /\ pc' = [pc EXCEPT ![p] = "save_deactivate"]
  /\ UNCHANGED <<neural_network_models, approved_articles, junk_articles, op, calls, probe>>

\* ---------------------------------------------------- saveModelToDatabase
\* the update statement: it succeeds, returns an error (not looked at), or throws
SaveDeactivate(p) ==
  /\ pc[p] = "save_deactivate"
  /\ LET active == loadModelFromDatabase(neural_network_models).id
         h == [Note(p, "deactivate") EXCEPT !.activeAtSave = active]
     IN \E result \in {"ok", "error", "throw"} :
          /\ Outcome(Failed(result = "ok"))
          /\ IF result = "ok"
             THEN /\ neural_network_models' = DeactivateAll(neural_network_models)
                  /\ hist' = WrittenBy(p, h)
             ELSE /\ UNCHANGED neural_network_models
                  /\ hist' = [hist EXCEPT ![p] = h]
          /\ IF result = "throw"
             THEN /\ loc' = [loc EXCEPT ![p].saveOk = FALSE]
                  /\ pc' = [pc EXCEPT ![p] = "save_return"]
             ELSE /\ UNCHANGED loc
                  /\ pc' = [pc EXCEPT ![p] = "save_insert"]
  /\ UNCHANGED <<approved_articles, junk_articles, op, calls, probe>>

\* the insert statement and the `if (error) return false`
SaveInsert(p) ==
  /\ pc[p] = "save_insert"
  /\ \E ok \in BOOLEAN :
       /\ Outcome(Failed(ok))
       /\ IF ok
          THEN /\ neural_network_models' =
                    InsertModel(neural_network_models, loc[p].nn, loc[p].vocabulary, loc[p].trainingCount)
               /\ hist' = WrittenBy(p, [Note(p, "insert") EXCEPT
                                          !.insertedId = Len(neural_network_models) + 1,
                                          !.quiet = TRUE])
          ELSE /\ UNCHANGED neural_network_models
               /\ hist' = [hist EXCEPT ![p] = Note(p, "insert")]
       /\ loc' = [loc EXCEPT ![p].saveOk = ok]
  /\ pc' = [pc EXCEPT ![p] = "save_return"]
  /\ UNCHANGED <<approved_articles, junk_articles, op, calls, probe>>

\* the code of the caller after `await saveModelToDatabase(...)`
SaveReturn(p) ==
  /\ pc[p] = "save_return"
  /\ IF op[p] = "score"
     THEN LET scores == ScoresAfterSave(loc[p].saveOk, loc[p].articles, loc[p].nn, loc[p].vocabulary)
          IN /\ loc' = [loc EXCEPT ![p].scores = scores,
                                   ![p].out = ScoredArticles(loc[p].articles, scores, loc[p].junkLinks)]
             /\ hist' = [hist EXCEPT ![p] = Note(p, "score")]
     ELSE /\ loc' = [loc EXCEPT ![p].ret = ReturnAfterSave(loc[p].saveOk)]
          /\ UNCHANGED hist
  /\ pc' = [pc EXCEPT ![p] = "done"]
  /\ UNCHANGED <<neural_network_models, approved_articles, junk_articles, op, dbErrors, calls, probe>>

\* ---------------------------------------------------- incrementalTraining
StartIncrementalTraining(p) ==
  \E in \in IncrementalInputs :
    Begin(p, "incr", "inc_load",
          [IdleLoc EXCEPT !.newApproved = in.newApproved, !.newJunk = in.newJunk, !.epochs = in.epochs])

\* const savedModel = await loadModelFromDatabase(), up to the call of saveModelToDatabase
IncrLoad(p) ==
  /\ pc[p] = "inc_load"
  /\ \E ok \in BOOLEAN :
       /\ Outcome(Failed(ok))
       /\ LET savedModel == IF ok THEN loadModelFromDatabase(neural_network_models) ELSE NoModel
              h == [Note(p, "load") EXCEPT !.rowsAtLoad = Len(neural_network_models),
                                           !.activeAtLoad = Cardinality(ActiveRows(neural_network_models)),
                                           !.alone = TRUE]
              trainingData == TrainingData(ApprovedRows(loc[p].newApproved),
                                           JunkRows(loc[p].newJunk), savedModel.vocabulary)
          IN IF ~HasSavedModel(savedModel)
             THEN /\ loc' = [loc EXCEPT ![p].savedModel = savedModel]
                  /\ hist' = [hist EXCEPT ![p] = [h EXCEPT !.trace = Append(@, "fullModelRetrain")]]
                  /\ pc' = [pc EXCEPT ![p] = "full_fetch"]
             ELSE IF Len(trainingData) = 0
             THEN /\ loc' = [loc EXCEPT ![p].savedModel = savedModel, ![p].ret = "false"]
                  /\ hist' = [hist EXCEPT ![p] = h]
                  /\ pc' = [pc EXCEPT ![p] = "done"]
             ELSE \E rnd \in Seeds :
                    /\ loc' = [loc EXCEPT ![p].savedModel = savedModel,
                                          ![p].nn = TrainEpochs(savedModel.nn, trainingData, loc[p].epochs, rnd),
                                          ![p].vocabulary = savedModel.vocabulary,
                                          ![p].trainingCount =
                                             NewTrainingCount(savedModel.trainingCount, trainingData, loc[p].epochs)]
                    /\ hist' = [hist EXCEPT ![p] = [h EXCEPT !.trace = Append(@, "train")]]
                    /\ pc' = [pc EXCEPT ![p] = "save_deactivate"]
  /\ UNCHANGED <<neural_network_models, approved_articles, junk_articles, op, calls, probe>>

\* ------------------------------------------------------- fullModelRetrain
StartFullModelRetrain(p) == Begin(p, "full", "full_fetch", IdleLoc)

\* getApprovedExamples(), getJunkExamples(), up to the call of saveModelToDatabase.
\* The two reads are one step: no step writes the tables they read.
FullFetch(p) ==
  /\ pc[p] = "full_fetch"
  /\ \E okA \in BOOLEAN, okJ \in BOOLEAN :
       /\ Outcome(Failed(okA) + Failed(okJ))
       /\ LET approved == IF okA THEN getApprovedExamples(approved_articles) ELSE <<>>
              junk == IF okJ THEN getJunkExamples(junk_articles) ELSE <<>>
              h == [hist[p] EXCEPT !.storedA = Len(approved_articles), !.storedJ = Len(junk_articles),
                                   !.alone = (op[p] = "full" \/ @)]
          IN IF InsufficientData(approved, junk)
             THEN /\ loc' = [loc EXCEPT ![p].approved = approved, ![p].junk = junk, ![p].ret = "false"]
                  /\ hist' = [hist EXCEPT ![p] = h]
                  /\ pc' = [pc EXCEPT ![p] = "done"]
             ELSE \E rnd \in Seeds :
                    LET trained == trainNeuralNetwork(ApprovedRows(approved), JunkRows(junk), FullEpochs, rnd)
                    IN /\ loc' = [loc EXCEPT ![p].approved = approved,
                                             ![p].junk = junk,
                                             ![p].nn = trained.nn,
                                             ![p].vocabulary = trained.vocabulary,
                                             ![p].trainingCount = FullTrainingCount(approved, junk)]
                       /\ hist' = [hist EXCEPT ![p] = [h EXCEPT !.trace = Append(@, "train")]]
                       /\ pc' = [pc EXCEPT ![p] = "save_deactivate"]
  /\ UNCHANGED <<neural_network_models, approved_articles, junk_articles, op, calls, probe>>

\* the state of the requests, which the functions applied on their own leave alone
requests == <<neural_network_models, approved_articles, junk_articles, op, pc, loc, hist, dbErrors, calls>>

\* ---------------------------------------------- functions on their own
\* the arrow function of articles.map in scoreBatchWithNeuralNet and the one of
\* scoreBatchArticles, applied to one article whose network output is prediction
ProbeNetScore ==
  /\ probe = NoProbe
  /\ \E prediction \in 0..PerMille, link \in {2, 5}, junkLinks \in {{}, {2, 4}} :
      /\ probe' = [fn |-> "NetResult", prediction |-> prediction, link |-> link, junkLinks |-> junkLinks,
                   out |-> NetResult(prediction),
                   scored |-> ScoredArticles(<<link>>, <<NetResult(prediction)>>, junkLinks)[1]]
      /\ UNCHANGED requests

\* the two returns of neutral results: the insufficient-data result of
\* scoreBatchWithNeuralNet mapped by scoreBatchArticles, and its own
\* no-training-data result
ProbeNeutral ==
  /\ probe = NoProbe
  /\ \E link \in {2, 5}, junkLinks \in {{}, {2, 4}}, mapped \in BOOLEAN :
      /\ probe' = [fn |-> "Neutral", link |-> link, junkLinks |-> junkLinks, mapped |-> mapped,
                   out |-> InsufficientScores(<<link>>)[1],
                   scored |-> IF mapped
                              THEN ScoredArticles(<<link>>, InsufficientScores(<<link>>), junkLinks)[1]
                              ELSE NoTrainingDataResults(<<link>>)[1]]
      /\ UNCHANGED requests

\* n times the word w
Repeat(w, n) == [i \in 1..n |-> w]

\* all sequences over tokens of length at most n
RECURSIVE SeqsUpTo(_, _)
SeqsUpTo(tokens, n) ==
  IF n = 0 THEN {<<>>}
  ELSE SeqsUpTo(tokens, n - 1) \cup {Append(t, w) : t \in SeqsUpTo(tokens, n - 1), w \in tokens}

\* the approved corpora of the keyword scorer: none, or one article
KeywordApproved ==
  {<<>>} \cup
  {<<[title |-> Repeat("chip", a) \o Repeat("constructor", c), description |-> Repeat("deal", f)]>> :
     a \in 0..1, c \in 0..1, f \in {0, FillerWords}}

KeywordJunk ==
  {<<[title |-> Repeat("lottery", l) \o Repeat("chip", a) \o Repeat("constructor", c), description |-> <<>>]>> :
     l \in 0..1, a \in 0..1, c \in 0..1}

KeywordArticles ==
  {[title |-> t, description |-> <<>>] :
     t \in SeqsUpTo({"chip", "lottery", "constructor", "with", "quantum"}, MaxArticleWords)}

ProbeKeywords ==
  /\ probe = NoProbe
  /\ \E article \in KeywordArticles, approvedArticles \in KeywordApproved, junkArticles \in KeywordJunk :
      /\ probe' = [fn |-> "scoreArticleWithKeywords", article |-> article,
                   approvedArticles |-> approvedArticles, junkArticles |-> junkArticles,
                   out |-> scoreArticleWithKeywords(article, approvedArticles, junkArticles)]
      /\ UNCHANGED requests

\* the raw tokens of the corpora of buildVocabulary: upper and lower case, a
\* year, a stopword, a word of three letters
VocabularyTokens == {"Chip", "chip", "lottery", "2024", "with", "win"}

\* an article whose text is t: the first token is its title, the second its
\* description, the rest its research_notes
ArticleOf(t) ==
  [title |-> SubSeq(t, 1, Min(1, Len(t))),
   description |-> SubSeq(t, 2, Min(2, Len(t))),
   research_notes |-> SubSeq(t, 3, Len(t))]

\* no article, one article of up to MaxArticleWords tokens, or two shorter ones
VocabularyCorpora ==
  {<<>>}
  \cup {<<ArticleOf(t)>> : t \in SeqsUpTo(VocabularyTokens, MaxArticleWords)}
  \cup {<<ArticleOf(t), ArticleOf(u)>> : t \in SeqsUpTo(VocabularyTokens, MaxArticleWords - 1),
                                          u \in SeqsUpTo(VocabularyTokens, MaxArticleWords - 1)}

ProbeVocabulary ==
  /\ probe = NoProbe
  /\ \E articles \in VocabularyCorpora, maxFeatures \in 0..MaxVocabulary :
      /\ probe' = [fn |-> "buildVocabulary", articles |-> articles, maxFeatures |-> maxFeatures,
                   out |-> buildVocabulary(articles, maxFeatures)]
      /\ UNCHANGED requests

ProbeFeatureVector ==
  /\ probe = NoProbe
  /\ \E t \in SeqsUpTo({"Chip", "constructor", "lottery", "2024", "with"}, MaxArticleWords),
       vocabulary \in SeqsUpTo({"chip", "constructor", "lottery", "2024"}, MaxVocabulary - 1) :
      /\ probe' = [fn |-> "articleToFeatureVector", article |-> ArticleOf(t), vocabulary |-> vocabulary,
                   out |-> articleToFeatureVector(ArticleOf(t), vocabulary)]
      /\ UNCHANGED requests

\* scoreBatchWithNeuralNet as a function of what it is given and what it reads:
\* the result of loadModelFromDatabase, the result of saveModelToDatabase and
\* the state of Math.random
scoreBatchWithNeuralNet(articles, approvedArticles, junkArticles, savedModel, saveOk, rnd) ==
  IF InsufficientData(approvedArticles, junkArticles) THEN InsufficientScores(articles)
  ELSE IF HasSavedModel(savedModel)
  THEN ScoreBatch(articles, savedModel.nn, savedModel.vocabulary)
  ELSE LET trained == trainNeuralNetwork(approvedArticles, junkArticles, FullEpochs, rnd)
       IN ScoresAfterSave(saveOk, articles, trained.nn, trained.vocabulary)

\* an active row whose vocabulary has fewer words than its input_size
ShortVocabularyModel ==
  [loadModelFromDatabase(InitialModel) EXCEPT !.vocabulary = SubSeq(@, 1, Len(@) - 1)]

\* an active row whose weights_input_hidden has fewer rows than its input_size
ShortMatrixModel ==
  [loadModelFromDatabase(InitialModel) EXCEPT !.nn.weights.rows = @ - 1]

\* the batches: articles of the feed and null entries
BatchesWithNull == SeqsUpTo({NullArticle, 2, 5}, MaxBatch)

ProbeScoreBatch ==
  /\ probe = NoProbe
  /\ \E articles \in BatchesWithNull, approved \in {<<1>>, <<3, 1>>},
        savedModel \in {NoModel, loadModelFromDatabase(InitialModel), ShortVocabularyModel, ShortMatrixModel},
        saveOk \in BOOLEAN, rnd \in Seeds :
       LET out == scoreBatchWithNeuralNet(articles, ApprovedRows(approved), JunkRows(<<4, 2>>),
                                          savedModel, saveOk, rnd)
           \* scoreBatchArticles reads article.link of every entry: a null entry
           \* makes it throw, and it has no output
           thrown == \E i \in DOMAIN articles : articles[i] = NullArticle
       IN /\ probe' = [fn |-> "scoreBatchWithNeuralNet", articles |-> articles,
                       approvedArticles |-> ApprovedRows(approved), junkArticles |-> JunkRows(<<4, 2>>),
                       savedModel |-> savedModel, saveOk |-> saveOk, rnd |-> rnd,
                       out |-> out, thrown |-> thrown,
                       scored |-> IF thrown THEN <<>> ELSE ScoredArticles(articles, out, {2, 4})]
          /\ UNCHANGED requests

\* ------------------------------------------------------ the API handlers
\* req.body.article of the approve and junk handlers: absent, or with or without
\* a title and a link (link 0 is no link)
NoArticle == [present |-> FALSE, title |-> FALSE, link |-> 0]

HandlerArticles ==
  {NoArticle} \cup {[present |-> TRUE, title |-> t, link |-> l] : t \in BOOLEAN, l \in {0, 7, 9}}

\* the handler up to its response, for a table of links with a UNIQUE link
\* column: the status, the table after the insert, the row returned by the
\* insert (0 when none)
InsertHandler(method, article, insert, table) ==
  IF method # "POST" THEN [status |-> 405, table |-> table, data |-> 0]
  ELSE IF ~article.present \/ ~article.title \/ article.link = 0
  THEN [status |-> 400, table |-> table, data |-> 0]
  ELSE IF insert = "throw" THEN [status |-> 500, table |-> table, data |-> 0]
  ELSE IF \E i \in DOMAIN table : table[i] = article.link
  THEN [status |-> 409, table |-> table, data |-> 0]
  ELSE IF insert = "error" THEN [status |-> 500, table |-> table, data |-> 0]
  ELSE [status |-> 200, table |-> Append(table, article.link), data |-> article.link]

\* approve.js: after the insert, incrementalTraining([data], [], 20) is started
\* and not awaited
approveHandler(method, article, insert, table) ==
  LET r == InsertHandler(method, article, insert, table)
  IN [status |-> r.status, table |-> r.table,
      trainings |-> IF r.status = 200
                    THEN <<[newApproved |-> <<r.data>>, newJunk |-> <<>>, epochs |-> 20]>>
                    ELSE <<>>]

\* junk.js: the insert and the response; it imports and calls no training
junkHandler(method, article, insert, table) ==
  LET r == InsertHandler(method, article, insert, table)
  IN [status |-> r.status, table |-> r.table, trainings |-> <<>>]

\* a user approves an article
Approve ==
  /\ probe.fn \in {"none", "approve", "junk"}
  /\ Len(approved_articles) + Len(junk_articles) < MaxHandled
  /\ \E method \in {"POST", "GET"}, article \in HandlerArticles, insert \in {"ok", "error", "throw"} :
       LET r == approveHandler(method, article, insert, approved_articles)
       IN /\ approved_articles' = r.table
          /\ probe' = [fn |-> "approve", method |-> method, article |-> article,
                       status |-> r.status, trainings |-> r.trainings]
  /\ UNCHANGED <<neural_network_models, junk_articles, op, pc, loc, hist, dbErrors, calls>>

\* a user junks an article
Junk ==
  /\ probe.fn \in {"none", "approve", "junk"}
  /\ Len(approved_articles) + Len(junk_articles) < MaxHandled
  /\ \E method \in {"POST", "GET"}, article \in HandlerArticles, insert \in {"ok", "error", "throw"} :
       LET r == junkHandler(method, article, insert, junk_articles)
       IN /\ junk_articles' = r.table
          /\ probe' = [fn |-> "junk", method |-> method, article |-> article,
                       status |-> r.status, trainings |-> r.trainings]
  /\ UNCHANGED <<neural_network_models, approved_articles, op, pc, loc, hist, dbErrors, calls>>

\* score-articles.js: the links upserted into flagged_articles for the output
\* of scoreBatchArticles (an article marked shouldAutoDelete is junked and
\* skipped before)
HandlerFlagged(scoredArticles) ==
  {scoredArticles[i].link : i \in {j \in DOMAIN scoredArticles :
      /\ ~scoredArticles[j].shouldAutoDelete
      /\ scoredArticles[j].shouldAutoFlag
      /\ scoredArticles[j].confidence > AutoFlagAbove}}

\* refresh-and-score.js, getUnscoredArticles: the articles with no prediction
\* that are in none of approved_articles, flagged_articles, junked_articles
getUnscoredArticles(articles, existingLinks, approvedLinks, flaggedLinks, junkedLinks) ==
  SelectSeq(articles, LAMBDA a : a \notin existingLinks \cup approvedLinks \cup flaggedLinks \cup junkedLinks)

\* refresh-and-score.js, scoreArticles: the links upserted into flagged_articles
CronFlagged(articles, predictions) ==
  {articles[i] : i \in {j \in DOMAIN predictions : predictions[j].confidence > AutoFlagAbove}}

\* one automatic scoring of a batch whose network outputs are prediction, over
\* a junk_articles table with the links 2 and 4.  The select of the junk links
\* in scoreBatchArticles succeeds or gives no data; junked_articles, a table the
\* schema does not define, is empty or holds link 4.
ProbeAutoFlag ==
  /\ probe = NoProbe
  /\ \E articles \in SeqsUpTo({2, 5}, MaxBatch), prediction \in {20, 900},
        okL \in BOOLEAN, junkedLinks \in {{}, {4}}, path \in {"score-articles", "cron"} :
       LET junkLinks == IF okL THEN {2, 4} ELSE {}
           scored(batch) == ScoredArticles(batch, [i \in DOMAIN batch |-> NetResult(prediction)], junkLinks)
           unscored == getUnscoredArticles(articles, {}, {}, {}, junkedLinks)
       IN /\ probe' = [fn |-> "autoFlag", path |-> path, articles |-> articles, prediction |-> prediction,
                       okL |-> okL, junk_articles |-> {2, 4},
                       flagged |-> IF path = "cron" THEN CronFlagged(unscored, scored(unscored))
                                   ELSE HandlerFlagged(scored(articles))]
  /\ UNCHANGED requests

\* ------------------------------------------- the network's own arithmetic
\* Numbers are kept in thousandths (PerMille is 1.0); feature values are 0 or 1.
Times(a, b) == (a * b) \div PerMille

\* 1 / (1 + Math.exp(-x)): increasing from 0 to 1 with sigmoid(0) = 0.5, kept as
\* the chord through 0.5 of slope 0.12 between its values at -4 and 4
sigmoid(x) ==
  IF x <= 0 - 4 * PerMille THEN PerMille \div 50
  ELSE IF x >= 4 * PerMille THEN PerMille - PerMille \div 50
  ELSE PerMille \div 2 + (x * 12) \div 100

\* x * (1 - x)
sigmoidDerivative(x) == Times(x, PerMille - x)

\* this.learningRate * x
TimesLearningRate(nn, x) == (nn.learningRate * x) \div 10

RECURSIVE SumTo(_, _)
SumTo(f, n) == IF n = 0 THEN 0 ELSE f[n] + SumTo(f, n - 1)

\* Math.random() * 2 - 1 for the entry (i, j) of the draw k
Drawn(k, i, j) == (((k * 7 + i * 3 + j * 5) % 9) - 4) * (PerMille \div 5)

\* new NeuralNetwork(inputSize, hiddenSize, outputSize) with its entries
NetworkObject(inputSize, hiddenSize, outputSize, k) ==
  [inputSize |-> inputSize, hiddenSize |-> hiddenSize, outputSize |-> outputSize,
   weightsInputHidden |-> [i \in 1..inputSize |-> [j \in 1..hiddenSize |-> Drawn(k, i, j)]],
   weightsHiddenOutput |-> [i \in 1..hiddenSize |-> [j \in 1..outputSize |-> Drawn(k + 1, i, j)]],
   biasHidden |-> [j \in 1..hiddenSize |-> Drawn(k + 2, j, 0)],
   biasOutput |-> [j \in 1..outputSize |-> Drawn(k + 3, j, 0)],
   learningRate |-> LearningRateTenths]

\* forward(inputs): { hidden, output }
forward(nn, inputs) ==
  LET hidden == [j \in 1..nn.hiddenSize |->
                   sigmoid(nn.biasHidden[j]
                           + SumTo([i \in 1..nn.inputSize |-> inputs[i] * nn.weightsInputHidden[i][j]],
                                   nn.inputSize))]
      output == [j \in 1..nn.outputSize |->
                   sigmoid(nn.biasOutput[j]
                           + SumTo([i \in 1..nn.hiddenSize |-> Times(hidden[i], nn.weightsHiddenOutput[i][j])],
                                   nn.hiddenSize))]
  IN [hidden |-> hidden, output |-> output]

\* A call of a method of the network object m.nn runs the stages of the method
\* in order; m holds the object and the local variables of the call.
\* variant: the forward pass keeps the hidden activations in biasHidden
ForwardStage_Caching(m) ==
  LET f == forward(m.nn, m.inputs)
  IN [m EXCEPT !.hidden = f.hidden, !.output = f.output, !.nn.biasHidden = f.hidden]

\* const { hidden, output } = this.forward(inputs)
ForwardStage(m) ==
  LET f == forward(m.nn, m.inputs)
  IN [m EXCEPT !.hidden = f.hidden, !.output = f.output]

\* the loop over outputError and outputDelta
OutputDeltaStage(m) ==
  [m EXCEPT !.outputDelta =
     [i \in 1..m.nn.outputSize |->
        Times(m.targetOutput[i] * PerMille - m.output[i], sigmoidDerivative(m.output[i]))]]

\* the loop over hiddenError and hiddenDelta
HiddenDeltaStage(m) ==
  [m EXCEPT !.hiddenDelta =
     [i \in 1..m.nn.hiddenSize |->
        Times(SumTo([j \in 1..m.nn.outputSize |-> Times(m.outputDelta[j], m.nn.weightsHiddenOutput[i][j])],
                    m.nn.outputSize),
              sigmoidDerivative(m.hidden[i]))]]

\* Update weights: hidden to output
UpdateHiddenOutputStage(m) ==
  [m EXCEPT !.nn.weightsHiddenOutput =
     [i \in 1..m.nn.hiddenSize |-> [j \in 1..m.nn.outputSize |->
        @[i][j] + TimesLearningRate(m.nn, Times(m.outputDelta[j], m.hidden[i]))]]]

\* Update weights: input to hidden
UpdateInputHiddenStage(m) ==
  [m EXCEPT !.nn.weightsInputHidden =
     [i \in 1..m.nn.inputSize |-> [j \in 1..m.nn.hiddenSize |->
        @[i][j] + TimesLearningRate(m.nn, m.hiddenDelta[j] * m.inputs[i])]]]

\* Update biases
UpdateBiasStage(m) ==
  [m EXCEPT !.nn.biasOutput = [i \in 1..m.nn.outputSize |-> @[i] + TimesLearningRate(m.nn, m.outputDelta[i])],
            !.nn.biasHidden = [i \in 1..m.nn.hiddenSize |-> @[i] + TimesLearningRate(m.nn, m.hiddenDelta[i])]]

\* return output[0]
ReturnStage(m) == [m EXCEPT !.returned = m.output[1]]

\* variant: weightsHiddenOutput is updated as soon as the output deltas are known
TrainStages_UpdateFirst ==
  <<"forward", "outputDelta", "updateHiddenOutput", "hiddenDelta", "updateInputHidden", "updateBias">>

\* the statements of train(inputs, targetOutput), in the order of the text
TrainStages ==
  <<"forward", "outputDelta", "hiddenDelta", "updateHiddenOutput", "updateInputHidden", "updateBias">>

\* the statements of predict(inputs)
PredictStages == <<"forward", "return">>

StagesOf(call) == IF call = "train" THEN TrainStages ELSE PredictStages

AfterStage(stage, m) ==
  CASE stage = "forward" -> ForwardStage(m)
    [] stage = "outputDelta" -> OutputDeltaStage(m)
    [] stage = "hiddenDelta" -> HiddenDeltaStage(m)
    [] stage = "updateHiddenOutput" -> UpdateHiddenOutputStage(m)
    [] stage = "updateInputHidden" -> UpdateInputHiddenStage(m)
    [] stage = "updateBias" -> UpdateBiasStage(m)
    [] OTHER -> ReturnStage(m)

\* the feature vectors of length n
RECURSIVE Bits(_)
Bits(n) == IF n = 0 THEN {<<>>} ELSE {Append(b, x) : b \in Bits(n - 1), x \in {0, 1}}

\* a network object is constructed
NewNetwork ==
  /\ probe = NoProbe
  /\ \E k \in Seeds :
       LET nn == NetworkObject(NetInputSize, NetHiddenSize, OutputSize, k)
           zeros == [j \in 1..NetHiddenSize |-> 0]
       IN probe' = [fn |-> "NeuralNetwork", nn |-> nn, pre |-> nn, call |-> "none", last |-> "none", stage |-> 0,
                    calls |-> 0, inputs |-> [i \in 1..NetInputSize |-> 0], targetOutput |-> <<0>>,
                    hidden |-> zeros, output |-> <<0>>, outputDelta |-> <<0>>, hiddenDelta |-> zeros,
                    returned |-> 0, seen |-> {}]
  /\ UNCHANGED requests

\* a method of the object is called: the locals of the call are fresh (last is
\* the method called last, pre the object as it was then)
Called(call, inputs, targetOutput) ==
  [probe EXCEPT !.call = call, !.last = call, !.stage = 1, !.calls = @ + 1, !.pre = probe.nn,
                !.inputs = inputs, !.targetOutput = targetOutput,
                !.hidden = [j \in 1..NetHiddenSize |-> 0], !.output = <<0>>,
                !.outputDelta = <<0>>, !.hiddenDelta = [j \in 1..NetHiddenSize |-> 0]]

\* nn.train(input, output) with output [1] or [0]
CallTrain ==
  /\ probe.fn = "NeuralNetwork"
  /\ probe.call = "none"
  /\ probe.calls < MaxNetCalls
  /\ \E inputs \in Bits(NetInputSize), target \in {0, 1} :
       probe' = Called("train", inputs, <<target>>)
  /\ UNCHANGED requests

\* nn.predict(features)
CallPredict ==
  /\ probe.fn = "NeuralNetwork"
  /\ probe.call = "none"
  /\ probe.calls < MaxNetCalls
  /\ \E inputs \in Bits(NetInputSize) :
       probe' = Called("predict", inputs, <<0>>)
  /\ UNCHANGED requests

\* the next stage of the running call; after the last one the call has returned
\* (a value returned by predict is noted with the object and the input it was
\* computed from)
RunStage ==
  /\ probe.fn = "NeuralNetwork"
  /\ probe.call # "none"
  /\ probe.stage <= Len(StagesOf(probe.call))
  /\ LET m == AfterStage(StagesOf(probe.call)[probe.stage], probe)
     IN probe' = [m EXCEPT !.stage = @ + 1,
                           !.seen = IF probe.call = "predict" /\ probe.stage = Len(PredictStages)
                                    THEN @ \cup {[nn |-> probe.pre, inputs |-> m.inputs, value |-> m.returned]}
                                    ELSE @]
  /\ UNCHANGED requests

Return ==
  /\ probe.fn = "NeuralNetwork"
  /\ probe.call # "none"
  /\ probe.stage > Len(StagesOf(probe.call))
  /\ probe' = [probe EXCEPT !.call = "none", !.stage = 0]
  /\ UNCHANGED requests

NextNet ==
  \/ NewNetwork
  \/ CallTrain
  \/ CallPredict
  \/ RunStage
  \/ Return

NextFn ==
  \/ ProbeNetScore
  \/ ProbeNeutral
  \/ ProbeKeywords
  \/ ProbeVocabulary
  \/ ProbeFeatureVector
  \/ ProbeScoreBatch
  \/ ProbeAutoFlag
  \/ Approve
  \/ Junk

\* the functions are applied over an empty database
InitFn == Init /\ neural_network_models = <<>> /\ approved_articles = <<>>

SpecFn == InitFn /\ [][NextFn]_vars

\* a network object on its own
SpecNet == InitFn /\ [][NextNet]_vars

Next ==
  \E p \in Procs :
    \/ StartScoreBatchArticles(p)
    \/ SbaFetch(p)
    \/ ScoreLoad(p)
    \/ StartIncrementalTraining(p)
    \/ IncrLoad(p)
    \/ StartFullModelRetrain(p)
    \/ FullFetch(p)
    \/ SaveDeactivate(p)
    \/ SaveInsert(p)
    \/ SaveReturn(p)

Spec == Init /\ [][Next]_vars

TypeOK ==
  /\ \A p \in Procs : pc[p] \in {"idle", "sba_fetch", "sb_load", "inc_load", "full_fetch",
                                 "save_deactivate", "save_insert", "save_return", "done"}
  /\ dbErrors \in 0..MaxDbErrors
  /\ calls \in 0..MaxCalls

\* -------------------------------------------------------------- properties
Done(p, name) == op[p] = name /\ pc[p] = "done"

InTrace(p, event) == \E i \in DOMAIN hist[p].trace : hist[p].trace[i] = event

\* row and model hold the same network, vocabulary and training count
SameModel(row, nn, vocabulary, trainingCount) ==
  /\ row.weights = nn.weights
  /\ row.weights_hidden_output = nn.weightsHiddenOutput
  /\ row.bias_hidden = nn.biasHidden
  /\ row.bias_output = nn.biasOutput
  /\ row.input_size = nn.inputSize
  /\ row.hidden_size = nn.hiddenSize
  /\ row.output_size = nn.outputSize
  /\ row.learning_rate = nn.learningRate
  /\ row.vocabulary = vocabulary
  /\ row.training_count = trainingCount


\* C1: at most one row of neural_network_models has is_active = true, in every
\* reachable state and under every interleaving of the three operations, each save
\* being a deactivate-all statement followed by an insert statement (stated for
\* the runs in which no database statement fails).
C1_AtMostOneActive ==
  dbErrors = 0 => Cardinality(ActiveRows(neural_network_models)) <= 1

\* C2: a scoreBatchWithNeuralNet call whose loadModelFromDatabase ran while another
\* call was between the two statements of saveModelToDatabase, over a store that
\* had an active model, obtained a model, and that model is a whole row of the
\* store, not a mix of two (stated for the runs in which no database statement
\* fails).
C2_RacedLoadGetsWholeModel ==
  \A p \in Procs :
    (dbErrors = 0 /\ op[p] = "score" /\ hist[p].racedLoad) =>
       /\ loc[p].savedModel.ok
       /\ loc[p].savedModel.id \in DOMAIN neural_network_models
       /\ SameModel(neural_network_models[loc[p].savedModel.id], loc[p].savedModel.nn,
                    loc[p].savedModel.vocabulary, loc[p].savedModel.trainingCount)

\* C3: saveModelToDatabase is all-or-nothing: when its insert has failed, the model
\* that was active when the save began is still active, and outside a running save
\* a store that holds a model holds an active one.
C3_SaveAllOrNothing ==
  /\ \A p \in Procs :
       (pc[p] = "save_return" /\ ~loc[p].saveOk /\ InTrace(p, "insert") /\ hist[p].activeAtSave # 0)
         => neural_network_models[hist[p].activeAtSave].is_active
  /\ ((\A p \in Procs : pc[p] # "save_insert") /\ Len(neural_network_models) > 0)
         => ActiveRows(neural_network_models) # {}

\* C4: scoreBatchWithNeuralNet called with fewer than 2 approved or fewer than 2
\* junk examples returns confidence 50 for every article and issues no load, no
\* training and no save, whatever the store holds; scoreBatchArticles with both
\* label sets empty returns 50 for every article without calling the network scorer.
C4_InsufficientDataNeutral ==
  \A p \in Procs :
    Done(p, "score") =>
      /\ (InTrace(p, "scoreBatchWithNeuralNet")
            /\ (Len(loc[p].approved) < 2 \/ Len(loc[p].junk) < 2))
         => /\ hist[p].trace = <<"scoreBatchWithNeuralNet">>
            /\ Len(loc[p].scores) = Len(loc[p].articles)
            /\ \A i \in DOMAIN loc[p].scores : loc[p].scores[i].confidence = 50
            /\ \A i \in DOMAIN loc[p].out : loc[p].out[i].confidence = 50
      /\ (Len(loc[p].approved) = 0 /\ Len(loc[p].junk) = 0)
         => /\ hist[p].trace = <<>>
            /\ Len(loc[p].out) = Len(loc[p].articles)
            /\ \A i \in DOMAIN loc[p].out : loc[p].out[i].confidence = 50

\* C4 happens: a batch of two articles was scored with one approved example while
\* the store holds an active model.
C4_Witness ==
  \E p \in Procs :
    /\ dbErrors = 0
    /\ Done(p, "score")
    /\ Len(loc[p].approved) = 1
    /\ Len(loc[p].junk) = 2
    /\ Len(loc[p].out) = 2
    /\ ActiveRows(neural_network_models) # {}

\* C5: fullModelRetrain with fewer than 2 stored approved or fewer than 2 stored
\* junk examples returns false and has issued no training and no statement that
\* writes the model store (no deactivate, no insert).
C5_FullRetrainInsufficient ==
  \A p \in Procs :
    (pc[p] = "done" /\ (op[p] = "full" \/ InTrace(p, "fullModelRetrain"))
       /\ (hist[p].storedA < 2 \/ hist[p].storedJ < 2))
    => /\ loc[p].ret = "false"
       /\ ~InTrace(p, "train")
       /\ ~InTrace(p, "deactivate")
       /\ ~InTrace(p, "insert")
       /\ hist[p].insertedId = 0

\* C5 happens: a full retrain returned over one stored approved example while the
\* store holds a model.
C5_Witness ==
  \E p \in Procs :
    /\ dbErrors = 0
    /\ Done(p, "full")
    /\ hist[p].storedA = 1
    /\ hist[p].storedJ = 2
    /\ Len(neural_network_models) = 1
    /\ ActiveRows(neural_network_models) = {1}

\* C6: a scoreBatchWithNeuralNet call that loaded an active model (both classes
\* having at least 2 examples) only reads: it issues the load and scores, with no
\* training and no statement that writes the model store, and it scores with the
\* model it loaded.
C6_ScoreWithSavedModelReadOnly ==
  \A p \in Procs :
    (Done(p, "score") /\ loc[p].savedModel.ok)
    => /\ Len(loc[p].approved) >= 2 /\ Len(loc[p].junk) >= 2
       /\ hist[p].trace = <<"scoreBatchWithNeuralNet", "load", "score">>
       /\ hist[p].insertedId = 0
       /\ loc[p].scores = ScoreAll(loc[p].articles, loc[p].savedModel.nn, loc[p].savedModel.vocabulary)

\* C6 happens: a batch of two articles was scored with the loaded model, which is
\* still the only row of the store.
C6_Witness ==
  \E p \in Procs :
    /\ dbErrors = 0
    /\ Done(p, "score")
    /\ loc[p].savedModel.ok
    /\ Len(loc[p].scores) = 2
    /\ Len(neural_network_models) = 1

\* the store's active model, as a load would return it, is the row this call inserted
HoldsActive(p) ==
  /\ hist[p].insertedId \in DOMAIN neural_network_models
  /\ neural_network_models[hist[p].insertedId].is_active
  /\ loadModelFromDatabase(neural_network_models).id = hist[p].insertedId

\* C7: a scoreBatchWithNeuralNet call that found no active model (both classes
\* having at least 2 examples) trains a new model on the supplied examples, then
\* saves it as active, then scores the articles with that same model; when the
\* save succeeded the store holds that model, active as long as no other call
\* has written since, and the only active row when the call ran alone over a
\* store without an active model.
C7_ColdStartTrainSaveScore ==
  \A p \in Procs :
    (Done(p, "score") /\ InTrace(p, "train")) =>
      LET trained == trainNeuralNetwork(ApprovedRows(loc[p].approved), JunkRows(loc[p].junk), 100,
                                        loc[p].nn.weights.seed)
      IN /\ ~loc[p].savedModel.ok
         /\ Len(loc[p].approved) >= 2 /\ Len(loc[p].junk) >= 2
         /\ hist[p].trace \in
              {<<"scoreBatchWithNeuralNet", "load", "train", "deactivate", "insert", "score">>,
               <<"scoreBatchWithNeuralNet", "load", "train", "deactivate", "score">>}
         /\ loc[p].nn = trained.nn
         /\ loc[p].vocabulary = trained.vocabulary
         /\ loc[p].scores = ScoreAll(loc[p].articles, loc[p].nn, loc[p].vocabulary)
         /\ loc[p].saveOk =>
              /\ hist[p].insertedId \in DOMAIN neural_network_models
              /\ SameModel(neural_network_models[hist[p].insertedId], loc[p].nn, loc[p].vocabulary,
                           (Len(loc[p].approved) + Len(loc[p].junk)) * 100)
              /\ hist[p].quiet => HoldsActive(p)
              /\ (hist[p].alone /\ hist[p].activeAtLoad = 0)
                   => ActiveRows(neural_network_models) = {hist[p].insertedId}

\* C7 happens: over a store without a model a batch of two articles was scored by
\* a call that trained and saved, and no database statement failed.
C7_Witness ==
  \E p \in Procs :
    /\ dbErrors = 0
    /\ Done(p, "score")
    /\ InTrace(p, "train")
    /\ loc[p].saveOk
    /\ hist[p].alone
    /\ hist[p].activeAtLoad = 0
    /\ Len(loc[p].scores) = 2

\* C8: an incrementalTraining call that loaded an active model, trained it on
\* n = |newApproved| + |newJunk| > 0 examples and saved it leaves a model with the
\* loaded vocabulary and input size and with training count = loaded count +
\* n * epochs; that model is the active one as long as no other call has written since.
C8_IncrementalKeepsShape ==
  \A p \in Procs :
    (Done(p, "incr") /\ loc[p].savedModel.ok /\ loc[p].saveOk) =>
      LET n == Len(loc[p].newApproved) + Len(loc[p].newJunk)
      IN /\ n > 0
         /\ loc[p].ret = "true"
         /\ hist[p].insertedId \in DOMAIN neural_network_models
         /\ LET row == neural_network_models[hist[p].insertedId]
            IN /\ row.vocabulary = loc[p].savedModel.vocabulary
               /\ row.input_size = loc[p].savedModel.nn.inputSize
               /\ row.input_size = Len(row.vocabulary)
               /\ row.training_count = loc[p].savedModel.trainingCount + n * loc[p].epochs
         /\ hist[p].quiet => HoldsActive(p)

\* C8 happens: one approved example, 20 epochs, on the model of count 400.
C8_Witness ==
  \E p \in Procs :
    /\ dbErrors = 0
    /\ Done(p, "incr")
    /\ loc[p].savedModel.ok
    /\ loc[p].saveOk
    /\ hist[p].quiet
    /\ loc[p].epochs = 20
    /\ loadModelFromDatabase(neural_network_models).trainingCount = 420

Degraded(p) == Done(p, "incr") /\ InTrace(p, "fullModelRetrain")

C11_FullRetrainSoleActive ==
  \A p \in Procs :
    (Done(p, "full") /\ loc[p].ret = "true" /\ loc[p].saveOk /\ hist[p].alone) =>
      /\ hist[p].insertedId \in DOMAIN neural_network_models
      /\ SameModel(neural_network_models[hist[p].insertedId], loc[p].nn, loc[p].vocabulary,
                   (Len(loc[p].approved) + Len(loc[p].junk)) * 100)
      /\ ActiveRows(neural_network_models) = {hist[p].insertedId}

\* two incrementalTraining calls that loaded the same model and both saved, q last
Overlapped(p, q) ==
  /\ p # q
  /\ Done(p, "incr") /\ Done(q, "incr")
  /\ loc[p].savedModel.ok /\ loc[q].savedModel.ok
  /\ loc[p].savedModel.id = loc[q].savedModel.id
  /\ loc[p].saveOk /\ loc[q].saveOk
  /\ hist[p].insertedId < hist[q].insertedId
  /\ hist[q].quiet

\* C12: when two incrementalTraining calls have loaded the same active model of
\* training count c and both have saved, the model that loadModelFromDatabase
\* returns afterwards is the later writer's alone: its training count is
\* c + n * epochs of the later writer and its weights are the loaded weights plus
\* the later writer's training pass, without the pass of the other call.
C12_LostUpdate ==
  \A p \in Procs : \A q \in Procs :
    Overlapped(p, q) =>
      LET after == loadModelFromDatabase(neural_network_models)
          c == loc[q].savedModel.trainingCount
          n == Len(loc[q].newApproved) + Len(loc[q].newJunk)
          loaded == loc[q].savedModel.nn.weights.hist
      IN /\ after.ok
         /\ after.id = hist[q].insertedId
         /\ after.trainingCount = c + n * loc[q].epochs
         /\ after.nn.weights = loc[q].nn.weights
         /\ Len(after.nn.weights.hist) = Len(loaded) + 1
         /\ SubSeq(after.nn.weights.hist, 1, Len(loaded)) = loaded

\* C12 happens: the first writer added 20 steps to the count 400, the second 2;
\* the active model has count 402.
C12_Witness ==
  \E p \in Procs : \E q \in Procs :
    /\ dbErrors = 0
    /\ Overlapped(p, q)
    /\ loc[p].epochs = 20
    /\ loc[q].epochs = 1
    /\ loadModelFromDatabase(neural_network_models).trainingCount = 402

\* C13 as stated: the confidence of a network result is round(100 * p).
C13_ConfidenceIsRounded ==
  probe.fn = "NetResult" => probe.out.confidence = MathRound(100 * probe.prediction, 1000)

\* C13: the confidence of a network result is round(100 * p) when that is at
\* least 5 and 0 when it is below 5 (the result is then marked shouldAutoDelete);
\* it never is 1, 2, 3 or 4.
C13_ConfidenceRoundedOrZero ==
  probe.fn = "NetResult" =>
    LET r == MathRound(100 * probe.prediction, PerMille)
    IN /\ r \in 0..100
       /\ probe.out.confidence = IF r < 5 THEN 0 ELSE r
       /\ probe.out.shouldAutoDelete = (r < 5)
       /\ probe.out.confidence \notin 1..4

\* C13 happens: a prediction of 0.031 rounds to 3 and is returned as 0.
C13_Witness ==
  /\ probe.fn = "NetResult"
  /\ probe.prediction = 31
  /\ probe.out.confidence = 0

ProbeWords == extractKeywords(TitleAndDescription(probe.article))
ProbeApprovedWords == calculateWordFrequency(probe.approvedArticles)
ProbeJunkWords == calculateWordFrequency(probe.junkArticles)
InWords(w, words) == \E i \in DOMAIN words : words[i] = w

\* a confidence that is a number below 5
Below5(confidence) == confidence # NotANumber /\ confidence < 5

\* a keyword-scorer probe none of whose texts has a name of Object.prototype
PlainWords ==
  /\ probe.fn = "scoreArticleWithKeywords"
  /\ \A w \in ObjectPrototypeKeys :
       ~InWords(w, ProbeWords) /\ ~InWords(w, ProbeApprovedWords) /\ ~InWords(w, ProbeJunkWords)

\* C15 as stated for the keyword scorer: shouldAutoDelete is true exactly when the
\* returned confidence is below 5 (stated for texts without the word "constructor").
C15_KeywordDeleteIffBelow5 ==
  PlainWords => (probe.out.shouldAutoDelete <=> Below5(probe.out.confidence))

\* C15: for every network result shouldAutoDelete is true exactly when the
\* returned confidence is below 5 (it then is 0); for every result of
\* scoreArticleWithKeywords shouldAutoDelete true implies that the returned
\* confidence is 0 and that no keyword of the article has a positive weight in
\* the approved corpus, and without any keyword of the junk corpus in the
\* article shouldAutoDelete is false.
C15_DeleteImpliesZero ==
  /\ probe.fn = "NetResult" =>
       /\ probe.out.shouldAutoDelete <=> probe.out.confidence < 5
       /\ probe.out.shouldAutoDelete <=> probe.out.confidence = 0
  /\ probe.fn = "scoreArticleWithKeywords" =>
       /\ probe.out.shouldAutoDelete => probe.out.confidence = 0
       /\ probe.out.shouldAutoDelete => Matched(ProbeApprovedWords, ProbeWords) = <<>>
       /\ (\A i \in DOMAIN ProbeWords : ~InWords(ProbeWords[i], ProbeJunkWords))
            => ~probe.out.shouldAutoDelete

\* C15 happens: the keyword scorer returned a confidence of 1..4 from the ratio
\* and shouldAutoDelete false.
C15_Witness ==
  /\ probe.fn = "scoreArticleWithKeywords"
  /\ probe.out.confidence \in 1..4
  /\ ~probe.out.shouldAutoDelete
  /\ PlainWords

\* C16: an article with at least one keyword in the junk corpus and no keyword in
\* the approved corpus gets confidence 0 and shouldAutoDelete true; an article
\* with at least one keyword in the approved corpus gets shouldAutoDelete false.
C16_PureJunkSignature ==
  probe.fn = "scoreArticleWithKeywords" =>
    LET inJunk == \E i \in DOMAIN ProbeWords : InWords(ProbeWords[i], ProbeJunkWords)
        inApproved == \E i \in DOMAIN ProbeWords : InWords(ProbeWords[i], ProbeApprovedWords)
    IN /\ (inJunk /\ ~inApproved) => (probe.out.confidence = 0 /\ probe.out.shouldAutoDelete)
       /\ inApproved => ~probe.out.shouldAutoDelete

\* the keywords of the corpus of a buildVocabulary probe, in corpus order
ProbeCorpusWords == CorpusWords(probe.articles, Len(probe.articles))

\* C17: buildVocabulary returns pairwise distinct words, at most maxFeatures of
\* them, none a stopword and none of length <= 3, each a keyword of the corpus;
\* an empty corpus gives the empty vocabulary.
C17_VocabularyBound ==
  probe.fn = "buildVocabulary" =>
    /\ Len(probe.out) <= probe.maxFeatures
    /\ \A i \in DOMAIN probe.out : \A j \in DOMAIN probe.out : i # j => probe.out[i] # probe.out[j]
    /\ \A i \in DOMAIN probe.out :
         /\ probe.out[i] \notin STOPWORDS
         /\ Len(probe.out[i]) > 3
         /\ InWords(probe.out[i], ProbeCorpusWords)
    /\ probe.articles = <<>> => probe.out = <<>>
    /\ Len(probe.out) = Min(probe.maxFeatures, Cardinality({ProbeCorpusWords[i] : i \in DOMAIN ProbeCorpusWords}))

\* C17 happens: a corpus with "Chip" and "chip", a stopword and a word of three
\* letters, and more distinct keywords than maxFeatures.
C17_Witness ==
  /\ probe.fn = "buildVocabulary"
  /\ probe.articles = <<ArticleOf(<<"Chip", "with">>), ArticleOf(<<"chip", "lottery">>)>>
  /\ probe.maxFeatures = 1
  /\ probe.out = <<"chip">>

\* the words in first-seen order, sorted by descending count (stable), cut
FirstSeenVocabulary(words, maxFeatures) ==
  LET sorted == SortByCountDesc(Distinct(words), words)
  IN SubSeq(sorted, 1, Min(Len(sorted), maxFeatures))

\* C18: buildVocabulary orders the words by descending corpus frequency, breaks
\* every tie by first-seen order in the corpus, and keeps the first maxFeatures
\* words of that order.
C18_TiesByFirstSeen ==
  probe.fn = "buildVocabulary" => probe.out = FirstSeenVocabulary(ProbeCorpusWords, probe.maxFeatures)

\* C19: articleToFeatureVector returns len(vocabulary) entries, each 0 or 1; entry
\* i is 1 if and only if vocabulary[i] is among the keywords of the article's
\* title, description and notes.
C19_FeatureVector ==
  probe.fn = "articleToFeatureVector" =>
    LET keywords == extractKeywords(ArticleText(probe.article))
    IN /\ Len(probe.out) = Len(probe.vocabulary)
       /\ \A i \in DOMAIN probe.out :
            /\ probe.out[i] \in {0, 1}
            /\ probe.out[i] = 1 <=> InWords(probe.vocabulary[i], keywords)

\* C20: every row of neural_network_models has input_size = len(vocabulary), a
\* weights_input_hidden of input_size rows of hidden_size = 20 entries each, and
\* output_size = 1, after any sequence of operations.
C20_StoredShape ==
  \A i \in DOMAIN neural_network_models :
    LET row == neural_network_models[i]
    IN /\ row.input_size = Len(row.vocabulary)
       /\ row.weights.rows = row.input_size
       /\ row.weights.cols = row.hidden_size
       /\ row.hidden_size = HiddenSize
       /\ row.output_size = OutputSize

\* C20 happens: an incremental pass has saved a second row, retrained from a
\* loaded row with a vocabulary that is not empty.
C20_Witness ==
  \E p \in Procs :
    /\ Done(p, "incr")
    /\ hist[p].insertedId # 0
    /\ Len(neural_network_models) >= 2
    /\ \A i \in DOMAIN neural_network_models : Len(neural_network_models[i].vocabulary) > 0

\* the call of p has inserted its model and nothing has written the store since
SavedAndQuiet(p) ==
  /\ pc[p] \in {"save_return", "done"}
  /\ loc[p].saveOk
  /\ hist[p].insertedId # 0
  /\ hist[p].quiet

\* the feature vectors of the articles, over a vocabulary
FeatureVectors(vocabulary) ==
  {articleToFeatureVector(ArticleRow(id), vocabulary) : id \in 1..8}

\* C21: after a successful saveModelToDatabase(nn, vocabulary, n), with no write
\* since, loadModelFromDatabase returns a model with the saved sizes, the saved
\* two weight matrices and two bias vectors, learningRate, vocabulary and
\* trainingCount n, and its predict equals the saved network's on every input.
C21_SaveLoadRoundTrip ==
  \A p \in Procs :
    SavedAndQuiet(p) =>
      LET saved == loc[p].nn
          loaded == loadModelFromDatabase(neural_network_models)
      IN /\ loaded.ok
         /\ loaded.nn.inputSize = saved.inputSize
         /\ loaded.nn.hiddenSize = saved.hiddenSize
         /\ loaded.nn.outputSize = saved.outputSize
         /\ loaded.nn.weights = saved.weights
         /\ loaded.nn.weightsHiddenOutput = saved.weightsHiddenOutput
         /\ loaded.nn.biasHidden = saved.biasHidden
         /\ loaded.nn.biasOutput = saved.biasOutput
         /\ loaded.nn.learningRate = saved.learningRate
         /\ loaded.vocabulary = loc[p].vocabulary
         /\ loaded.trainingCount = loc[p].trainingCount
         /\ \A features \in FeatureVectors(loaded.vocabulary) :
              predict(loaded.nn, features) = predict(saved, features)

\* C21 happens: an incremental pass has saved its retrained network while the
\* deactivate statement failed, so that two rows are active, and the load gives
\* back the saved one.
C21_Witness ==
  \E p \in Procs :
    /\ SavedAndQuiet(p)
    /\ op[p] = "incr"
    /\ Cardinality(ActiveRows(neural_network_models)) = 2
    /\ loadModelFromDatabase(neural_network_models).id = hist[p].insertedId
    /\ Len(loc[p].nn.biasOutput.hist) >= 2

\* a network object with a call of the method running or just returned
InCall(call) == probe.fn = "NeuralNetwork" /\ probe.call = call

\* C22: forward and predict leave every weight and bias unchanged (the object is
\* at every stage of predict, and after the forward pass of train, as it was when
\* the call began), only train modifies them, and two predict calls on the same
\* network state with the same feature vector return the same value.
C22_PredictIsPure ==
  probe.fn = "NeuralNetwork" =>
    /\ probe.last = "predict" => probe.nn = probe.pre
    /\ (probe.call = "train" /\ probe.stage = 2) => probe.nn = probe.pre
    /\ probe.nn # probe.pre => probe.last = "train"
    /\ \A a \in probe.seen : \A b \in probe.seen :
         (a.nn = b.nn /\ a.inputs = b.inputs) => a.value = b.value
    /\ \A a \in probe.seen : a.value = forward(a.nn, a.inputs).output[1]

\* C22 happens: predict has returned a value for a trained network and is
\* called again with the same feature vector, its forward pass done.
C22_Witness ==
  /\ InCall("predict")
  /\ probe.stage = 2
  /\ probe.calls = 3
  /\ probe.nn # NetworkObject(NetInputSize, NetHiddenSize, OutputSize, 1)
  /\ probe.nn # NetworkObject(NetInputSize, NetHiddenSize, OutputSize, 2)
  /\ \E a \in probe.seen : a.nn = probe.nn /\ a.inputs = probe.inputs /\ a.value = probe.output[1]

\* the deltas of train(inputs, targetOutput) computed from the object pre
DeltasOf(pre, inputs, targetOutput) ==
  LET m0 == [nn |-> pre, inputs |-> inputs, targetOutput |-> targetOutput,
             hidden |-> <<>>, output |-> <<>>, outputDelta |-> <<>>, hiddenDelta |-> <<>>]
      m == HiddenDeltaStage(OutputDeltaStage(ForwardStage(m0)))
  IN [outputDelta |-> m.outputDelta, hiddenDelta |-> m.hiddenDelta]

StagesDone(stage) == {TrainStages[i] : i \in 1..(stage - 1)}

\* C27: in train every output delta and every hidden delta is computed from the
\* weights as they were before the call (the hidden deltas from the pre-update
\* weightsHiddenOutput), and no weight or bias is written before both are
\* computed.
C27_DeltasBeforeUpdates ==
  InCall("train") =>
    LET deltas == DeltasOf(probe.pre, probe.inputs, probe.targetOutput)
        done == StagesDone(probe.stage)
    IN /\ "outputDelta" \in done => probe.outputDelta = deltas.outputDelta
       /\ "hiddenDelta" \in done => probe.hiddenDelta = deltas.hiddenDelta
       /\ ~({"outputDelta", "hiddenDelta"} \subseteq done) => probe.nn = probe.pre

\* C27 happens: a train call has updated weightsHiddenOutput, and the hidden
\* deltas it holds differ from those the updated matrix would give.
C27_Witness ==
  /\ InCall("train")
  /\ probe.nn.weightsHiddenOutput # probe.pre.weightsHiddenOutput
  /\ probe.hiddenDelta # HiddenDeltaStage(probe).hiddenDelta
  /\ probe.nn.biasHidden = probe.pre.biasHidden

\* the model a scoreBatchWithNeuralNet probe scores with, when it has the data
ProbeModel ==
  IF HasSavedModel(probe.savedModel)
  THEN [nn |-> probe.savedModel.nn, vocabulary |-> probe.savedModel.vocabulary]
  ELSE trainNeuralNetwork(probe.approvedArticles, probe.junkArticles, FullEpochs, probe.rnd)

ProbeScores == probe.fn = "scoreBatchWithNeuralNet"

\* the probe has the data and a model whose matrices forward can read
ProbeSufficient ==
  ~InsufficientData(probe.approvedArticles, probe.junkArticles) /\ ~MatrixTooShort(ProbeModel.nn)

\* the prediction of the model for article i of the probe
ProbePrediction(i) ==
  predict(ProbeModel.nn, articleToFeatureVector(ArticleRow(probe.articles[i]), ProbeModel.vocabulary))

\* C23: in scoreBatchWithNeuralNet a failure while scoring one article (a null
\* entry) affects only that article's result: every other article of the batch
\* receives the score computed from the model.
C23_FailureIsPerArticle ==
  (ProbeScores /\ ProbeSufficient) =>
    \A i \in DOMAIN probe.articles :
      probe.articles[i] # NullArticle =>
        probe.out[i] = ScoreOne(ArticleRow(probe.articles[i]), ProbeModel.nn, ProbeModel.vocabulary)

C25_ColdStartScoresWithoutSave ==
  \A p \in Procs :
    (Done(p, "score") /\ InTrace(p, "train") /\ ~loc[p].saveOk) =>
      /\ loc[p].scores = ScoreAll(loc[p].articles, loc[p].nn, loc[p].vocabulary)
      /\ loc[p].out = ScoredArticles(loc[p].articles, loc[p].scores, loc[p].junkLinks)
      /\ loc[p].nn = trainNeuralNetwork(ApprovedRows(loc[p].approved), JunkRows(loc[p].junk),
                                        FullEpochs, loc[p].nn.weights.seed).nn

\* C25 happens: a cold-start call whose insert failed has returned the scores of
\* two articles, and the store holds no model.
C25_Witness ==
  \E p \in Procs :
    /\ Done(p, "score")
    /\ InTrace(p, "train")
    /\ ~loc[p].saveOk
    /\ InTrace(p, "insert")
    /\ neural_network_models = <<>>
    /\ Len(loc[p].out) = 2
    /\ \E i \in DOMAIN loc[p].out : loc[p].out[i].confidence # NeutralConfidence

\* C30: on every path (insufficient data, loaded model, cold-start training,
\* caught error) scoreBatchWithNeuralNet returns one result per input article,
\* in input order, and scoreBatchArticles pairs result i with article i: its
\* output has the length of its input.
C30_OneResultPerArticle ==
  ProbeScores =>
    /\ Len(probe.out) = Len(probe.articles)
    /\ (ProbeSufficient /\ \A j \in DOMAIN probe.articles : probe.articles[j] # NullArticle)
         => \A i \in DOMAIN probe.articles : probe.out[i] = NetResult(ProbePrediction(i))
    /\ ~probe.thrown =>
         /\ Len(probe.scored) = Len(probe.articles)
         /\ \A i \in DOMAIN probe.articles :
              /\ probe.scored[i].link = probe.articles[i]
              /\ probe.scored[i].confidence = probe.out[i].confidence

\* C30 happens: the caught-error path, for a batch of two articles scored with a
\* stored matrix that is too short, paired by scoreBatchArticles.
C30_Witness ==
  /\ ProbeScores
  /\ probe.savedModel = ShortMatrixModel
  /\ ~InsufficientData(probe.approvedArticles, probe.junkArticles)
  /\ probe.articles = <<5, 2>>
  /\ probe.out = ErrorScores(probe.articles)
  /\ Len(probe.scored) = 2

\* C29: fullModelRetrain and incrementalTraining return true only if the
\* trained model was persisted as the active model: whenever saveModelToDatabase
\* fails they return false.
C29_TrueOnlyIfPersisted ==
  \A p \in Procs :
    ((Done(p, "full") \/ Done(p, "incr")) /\ InTrace(p, "train")) =>
      /\ loc[p].ret = "true" => (loc[p].saveOk /\ hist[p].insertedId # 0)
      /\ ~loc[p].saveOk => loc[p].ret = "false"

\* C26: every successful user action that approves an article and every one that
\* junks an article triggers one incrementalTraining call with that article as
\* the only new example, as approved, respectively as junk.
C26_ApproveAndJunkTrain ==
  /\ (probe.fn = "approve" /\ probe.status = 200) =>
       /\ Len(probe.trainings) = 1
       /\ probe.trainings[1].newApproved = <<probe.article.link>>
       /\ probe.trainings[1].newJunk = <<>>
  /\ (probe.fn = "junk" /\ probe.status = 200) =>
       /\ Len(probe.trainings) = 1
       /\ probe.trainings[1].newApproved = <<>>
       /\ probe.trainings[1].newJunk = <<probe.article.link>>

\* C28: no automatic scoring path (the score-articles handler, the cron job)
\* inserts into flagged_articles an article whose link is in junk_articles.
C28_NoJunkLinkFlagged ==
  probe.fn = "autoFlag" => probe.flagged \cap probe.junk_articles = {}

====
